---- MODULE Spec2Model ----
(***************************************************************************)
(* Model of backtrader_plotting/utils.py: the clock alignment routine      *)
(* convert_to_master_clock and the tabular join convert_to_pandas built on *)
(* it.  Python indices are kept 0-based as in the source; At(s, i) is the  *)
(* read s[i].  NaN is one token: "x is NaN" in the source (math.isnan) is  *)
(* "x = NaN" here.  The routine only copies line values, it never compares *)
(* or computes with them, so a line holds at each position a value that    *)
(* names the position, or NaN in its first entry.                          *)
(* Timestamps are only compared (== and >); they are drawn from Times.     *)
(***************************************************************************)
EXTENDS Integers, Sequences, FiniteSets, TLC

\* ---------------------------------------------------------------- bounds
\* longest line, line clock and master clock of a direct call
MaxLen == 3
\* longest line, line clock and master clock of a tabular join
MaxRows == 2

\* the timestamps and the line aliases the inputs are drawn from
Times == {10, 20, 30}
Aliases == {"datetime", "close", "volume"}
Prefixes == {"", "d0_"}

SeqsUpTo(S, n) == UNION {[1 .. k -> S] : k \in 0 .. n}

\* ---------------------------------------------------------------- values
NaN == 0
None == [none |-> TRUE, clock |-> <<>>]
Some(s) == [none |-> FALSE, clock |-> s]
At(s, i) == s[i + 1]
Last(s) == s[Len(s)]

\* the value at position k (0-based) of line number n: it names its place
Val(n, k) == 100 * (n + 1) + k + 1
\* line number n with len entries; nan: its first entry is NaN (an indicator
\* yields NaN before its minimum period)
LineOf(n, len, nan) == [k \in 1 .. len |-> IF nan /\ k = 1 THEN NaN ELSE Val(n, k - 1)]
LinesUpTo(n, max) == {LineOf(n, len, nan) : len \in 0 .. max, nan \in BOOLEAN}

VARIABLES
  line, line_clk, master_clock, fill_by_prev,      \* arguments of convert_to_master_clock
  clk_offset, new_line, next_start_idx, mpos,      \* its locals; mpos = master timestamps consumed
  pc, result,                                      \* its control point and return value
  trace,                                           \* one record per iteration of the loop at line 59
  obj, name_prefix,                                \* arguments of convert_to_pandas
  lines_clk, df, lineidx, ppc,                     \* its locals and control point
  nbuild, first_df                                 \* the caller building the table twice

alignVars == <<line, line_clk, master_clock, fill_by_prev>>
localVars == <<clk_offset, new_line, next_start_idx, mpos>>
pandasArgs == <<obj, name_prefix>>
pandasVars == <<lines_clk, df, lineidx, ppc, nbuild, first_df>>
vars == <<line, line_clk, master_clock, fill_by_prev, clk_offset, new_line,
          next_start_idx, mpos, pc, result, trace,
          obj, name_prefix, lines_clk, df, lineidx, ppc, nbuild, first_df>>

\* -------------------------------------------- convert_to_master_clock
\* variant: an empty master clock is taken for a missing one
PassThroughEmpty(mc) == mc.none \/ mc.clock = <<>>
PassThrough(mc) == mc.none

\* variants: no offset correction; the operands exchanged
ClkOffsetNone(l, clk) == 0
ClkOffsetSwapped(l, clk) == Len(l) - Len(clk)
ClkOffset(l, clk) == Len(clk) - Len(l)

\* variant: the cursor survives from the previous call
KeepCursor == next_start_idx
InitCursor == 0

\* variant: every scan restarts at the head of line_clk
ScanFromZero(cursor) == 0
\* range(next_start_idx, len(line_clk)) starts at the cursor
ScanFrom(cursor) == cursor

\* variant: a hit does not move the cursor past the entry it matched
NextStartSame(i) == i
NextStart(i) == i + 1

LineIdx(i, off) == i - off

\* variant: the scan gives up at the first entry that is not the timestamp
ScanFirstOnly(clk, sc, i) ==
  IF i >= Len(clk) THEN [found |-> FALSE, i |-> i, n |-> 0]
  ELSE [found |-> sc = At(clk, i), i |-> i, n |-> 1]

\* the inner loop for one master timestamp sc, from index i: whether it hit,
\* the index it stopped at, and the number of line_clk entries it read
RECURSIVE Scan(_, _, _)
Scan(clk, sc, i) ==
  IF i >= Len(clk) THEN [found |-> FALSE, i |-> i, n |-> 0]
  ELSE LET v == At(clk, i) IN
       IF sc = v THEN [found |-> TRUE, i |-> i, n |-> 1]
       ELSE IF v > sc THEN [found |-> FALSE, i |-> i, n |-> 1]
       ELSE LET r == Scan(clk, sc, i + 1) IN [found |-> r.found, i |-> r.i, n |-> r.n + 1]

\* the value of an exact hit; idx >= Len(l) is Python's IndexError
Readable(l, idx) == idx < Len(l)
HitValue(l, idx) == IF idx < 0 THEN NaN ELSE At(l, idx)

\* variant: the fill policy is ignored
FillValueNaN(nl, fill) == NaN
FillValue(nl, fill) == IF Len(nl) > 0 /\ fill THEN Last(nl) ELSE NaN

\* variant: a NaN is dropped instead of appended
EmitUnlessNaN(nl, v) == IF v = NaN THEN nl ELSE Append(nl, v)
\* new_line.append(v)
Emit(nl, v) == Append(nl, v)

Call ==
  /\ pc = "call"
  /\ IF PassThrough(master_clock)
     THEN /\ result' = line
          /\ pc' = "done"
          /\ UNCHANGED localVars
     ELSE /\ clk_offset' = ClkOffset(line, line_clk)
          /\ new_line' = <<>>
          /\ next_start_idx' = InitCursor
          /\ mpos' = 0
          /\ pc' = "loop"
          /\ UNCHANGED result
  /\ trace' = <<>>
  /\ UNCHANGED <<alignVars, pandasArgs, pandasVars>>

\* one iteration of the loop at line 59 that ends in the exact hit of lines 63-73
IterHit ==
  /\ pc = "loop"
  /\ mpos < Len(master_clock.clock)
  /\ LET sc == At(master_clock.clock, mpos)
         s == Scan(line_clk, sc, ScanFrom(next_start_idx))
         idx == LineIdx(s.i, clk_offset)
     IN /\ s.found
        /\ IF idx < 0 \/ Readable(line, idx)
           THEN /\ new_line' = Emit(new_line, HitValue(line, idx))
                /\ next_start_idx' = NextStart(s.i)
                /\ mpos' = mpos + 1
                /\ pc' = "loop"
           ELSE /\ pc' = "raised"
                /\ UNCHANGED <<new_line, next_start_idx, mpos>>
        /\ trace' = Append(trace, [cursor |-> next_start_idx, start |-> ScanFrom(next_start_idx),
                                   found |-> TRUE, i |-> s.i, n |-> s.n, read |-> idx])
  /\ UNCHANGED <<clk_offset, result, alignVars, pandasArgs, pandasVars>>

\* one iteration that finds no hit: lines 78-83
IterMiss ==
  /\ pc = "loop"
  /\ mpos < Len(master_clock.clock)
  /\ LET sc == At(master_clock.clock, mpos)
         s == Scan(line_clk, sc, ScanFrom(next_start_idx))
     IN /\ ~s.found
        /\ new_line' = Emit(new_line, FillValue(new_line, fill_by_prev))
        /\ trace' = Append(trace, [cursor |-> next_start_idx, start |-> ScanFrom(next_start_idx),
                                   found |-> FALSE, i |-> s.i, n |-> s.n, read |-> 0 - 1])
  /\ mpos' = mpos + 1
  /\ UNCHANGED <<clk_offset, next_start_idx, pc, result, alignVars, pandasArgs, pandasVars>>

Return ==
  /\ pc = "loop"
  /\ mpos = Len(master_clock.clock)
  /\ result' = new_line
  /\ pc' = "done"
  /\ UNCHANGED <<localVars, trace, alignVars, pandasArgs, pandasVars>>

Init ==
  /\ master_clock \in {None} \cup {Some(s) : s \in SeqsUpTo(Times, MaxLen)}
  /\ line_clk \in SeqsUpTo(Times, MaxLen)
  /\ line \in LinesUpTo(0, MaxLen)
  /\ fill_by_prev \in BOOLEAN
  /\ clk_offset = 0 /\ new_line = <<>> /\ next_start_idx = 0 /\ mpos = 0
  /\ pc = "call" /\ result = <<>> /\ trace = <<>>
  /\ obj = [aliases |-> <<>>, data |-> <<>>, clk |-> <<>>] /\ name_prefix = ""
  /\ lines_clk = <<>> /\ df = <<>> /\ lineidx = 0 /\ ppc = "none"
  /\ nbuild = 1 /\ first_df = <<>>

Next == Call \/ IterHit \/ IterMiss \/ Return

Spec == Init /\ [][Next]_vars

\* convert_to_master_clock as a function of its arguments: the loop of line
\* 59 over the master timestamps m still to come, with the cursor and the
\* output built so far
RECURSIVE AlignFrom(_, _, _, _, _, _)
AlignFrom(l, clk, m, fill, cursor, nl) ==
  IF m = <<>> THEN nl
  ELSE LET s == Scan(clk, Head(m), cursor) IN
       IF s.found
       THEN AlignFrom(l, clk, Tail(m), fill, s.i + 1,
                      Append(nl, HitValue(l, s.i - (Len(clk) - Len(l)))))
       ELSE AlignFrom(l, clk, Tail(m), fill, cursor,
                      Append(nl, IF Len(nl) > 0 /\ fill THEN Last(nl) ELSE NaN))
ConvertToMasterClock(l, clk, mc, fill) ==
  IF mc.none THEN l ELSE AlignFrom(l, clk, mc.clock, fill, 0, <<>>)

\* ---------------------------------------------------- convert_to_pandas
\* bt.num2date: a timestamp number becomes a datetime object
num2date(x) == [date |-> x]

\* name_prefix + linealias
ColumnName(prefix, alias) == <<prefix, alias>>

\* variant: the datetime line is not skipped
NeverDatetime(alias) == FALSE
IsDatetime(alias) == alias = "datetime"

\* the fill_by_prev that convert_to_pandas passes (none: the default)
PandasFill == FALSE

\* df[name] = values: a new column goes last, an existing one is replaced in place
SetColumn(frame, name, values) ==
  IF \E k \in 1 .. Len(frame) : frame[k].name = name
  THEN [k \in 1 .. Len(frame) |->
          IF frame[k].name = name THEN [name |-> name, values |-> values] ELSE frame[k]]
  ELSE Append(frame, [name |-> name, values |-> values])

PandasBegin ==
  /\ ppc = "start"
  /\ lines_clk' = obj.clk
  /\ df' = <<>>
  /\ lineidx' = 0
  /\ ppc' = "lines"
  /\ UNCHANGED <<alignVars, localVars, pc, result, trace, pandasArgs, nbuild, first_df>>

PandasSkip ==
  /\ ppc = "lines"
  /\ lineidx < Len(obj.aliases)
  /\ IsDatetime(At(obj.aliases, lineidx))
  /\ lineidx' = lineidx + 1
  /\ UNCHANGED <<alignVars, localVars, pc, result, trace, pandasArgs,
                 lines_clk, df, ppc, nbuild, first_df>>

\* lines 99-101: the call convert_to_master_clock(data, lines_clk, master_clock)
PandasAlign ==
  /\ ppc = "lines"
  /\ lineidx < Len(obj.aliases)
  /\ ~IsDatetime(At(obj.aliases, lineidx))
  /\ line' = At(obj.data, lineidx)
  /\ line_clk' = lines_clk
  /\ fill_by_prev' = PandasFill
  /\ pc' = "call"
  /\ ppc' = "aligning"
  /\ UNCHANGED <<master_clock, localVars, result, trace, pandasArgs,
                 lines_clk, df, lineidx, nbuild, first_df>>

\* line 103, with the call returned
PandasColumn ==
  /\ ppc = "aligning"
  /\ pc = "done"
  /\ df' = SetColumn(df, ColumnName(name_prefix, At(obj.aliases, lineidx)), result)
  /\ lineidx' = lineidx + 1
  /\ ppc' = "lines"
  /\ pc' = "idle"
  /\ UNCHANGED <<alignVars, localVars, result, trace, pandasArgs, lines_clk, nbuild, first_df>>

\* lines 105-107
PandasDatetime ==
  /\ ppc = "lines"
  /\ lineidx = Len(obj.aliases)
  /\ df' = SetColumn(df, ColumnName(name_prefix, "datetime"),
                     [k \in 1 .. Len(master_clock.clock) |-> num2date(master_clock.clock[k])])
  /\ ppc' = "done"
  /\ UNCHANGED <<alignVars, localVars, pc, result, trace, pandasArgs,
                 lines_clk, lineidx, nbuild, first_df>>

\* the caller builds the table a second time from the arguments as the first build left them
PandasAgain ==
  /\ ppc = "done"
  /\ nbuild = 1
  /\ nbuild' = 2
  /\ first_df' = df
  /\ ppc' = "start"
  /\ UNCHANGED <<alignVars, localVars, pc, result, trace, pandasArgs, lines_clk, df, lineidx>>

Distinct(a) == \A j, k \in 1 .. Len(a) : j # k => a[j] # a[k]
AliasSeqs ==
  {a \in SeqsUpTo(Aliases, Cardinality(Aliases)) :
     Distinct(a) /\ \E k \in 1 .. Len(a) : a[k] = "datetime"}
\* the lines of one object hold the same number of entries; the datetime line holds the clock
ObjData(a, c, rows) ==
  [k \in 1 .. Len(a) |-> IF a[k] = "datetime" THEN c ELSE LineOf(k - 1, rows, FALSE)]
Objs ==
  {[aliases |-> a, data |-> ObjData(a, c, rows), clk |-> c] :
     a \in AliasSeqs, c \in SeqsUpTo(Times, MaxRows), rows \in 0 .. MaxRows}

InitPandas ==
  /\ master_clock \in {Some(s) : s \in SeqsUpTo(Times, MaxRows)}
  /\ obj \in Objs
  /\ name_prefix \in Prefixes
  /\ line = <<>> /\ line_clk = <<>> /\ fill_by_prev = FALSE
  /\ clk_offset = 0 /\ new_line = <<>> /\ next_start_idx = 0 /\ mpos = 0
  /\ pc = "idle" /\ result = <<>> /\ trace = <<>>
  /\ lines_clk = <<>> /\ df = <<>> /\ lineidx = 0 /\ ppc = "start"
  /\ nbuild = 1 /\ first_df = <<>>

NextPandas ==
  \/ PandasBegin \/ PandasSkip \/ PandasAlign \/ PandasColumn \/ PandasDatetime \/ PandasAgain
  \/ Call \/ IterHit \/ IterMiss \/ Return

SpecPandas == InitPandas /\ [][NextPandas]_vars

\* ------------------------------------------------------------ properties
Master == master_clock.clock
M == Len(Master)
Supplied == ~master_clock.none
\* the output so far: new_line inside the loop, the returned value after it
Out == IF pc = "done" THEN result ELSE new_line
InCall == Supplied /\ pc \in {"loop", "done"}
Offset == Len(line_clk) - Len(line)
Sorted(s) == \A k \in 1 .. Len(s) - 1 : s[k] <= s[k + 1]
StrictAsc(s) == \A k \in 1 .. Len(s) - 1 : s[k] < s[k + 1]
RECURSIVE SumN(_)
SumN(t) == IF t = <<>> THEN 0 ELSE Head(t).n + SumN(Tail(t))
Examined == SumN(trace)
HasHit == \E k \in 1 .. Len(trace) : trace[k].found
HasMiss == \E k \in 1 .. Len(trace) : ~trace[k].found

\* C1: with a master clock supplied, one element is appended per master
\* timestamp consumed, and the value returned has exactly M elements.
C1_Length ==
  Supplied =>
    /\ pc = "loop" => Len(new_line) = mpos /\ Len(trace) = mpos
    /\ pc = "done" => Len(result) = M

C1_Witness ==
  /\ Supplied /\ pc = "done"
  /\ M = 3 /\ Len(result) = 3
  /\ HasHit /\ HasMiss
  /\ Len(line) # M /\ Len(line_clk) # M

\* C2 as stated: with the master clock None or empty the series comes back unchanged.
C2_PassThroughOrEmpty ==
  (pc = "done" /\ (master_clock.none \/ Master = <<>>)) => result = line

\* C2 amended: a master clock of None returns the series unchanged; an empty
\* master clock returns the empty sequence, whatever the series is.
C2_PassThrough ==
  pc = "done" =>
    /\ master_clock.none => result = line
    /\ (Supplied /\ Master = <<>>) => result = <<>>

C2_Witness ==
  /\ pc = "done" /\ master_clock = None
  /\ Len(line) = 3 /\ result = line
  /\ line_clk # <<>> /\ fill_by_prev

\* C3: with both clocks strictly ascending and NaN fill, the output at each
\* position is decided by membership of the master timestamp in line_clk:
\* line[i - offset] for the index i that holds it (NaN when i - offset < 0),
\* NaN when no index holds it.
C3_ExactMatch ==
  (pc = "done" /\ Supplied /\ ~fill_by_prev /\ StrictAsc(Master) /\ StrictAsc(line_clk)) =>
    \A j \in 1 .. M :
      IF \E i \in 0 .. Len(line_clk) - 1 : At(line_clk, i) = Master[j]
      THEN \A i \in 0 .. Len(line_clk) - 1 :
             At(line_clk, i) = Master[j] =>
               /\ j <= Len(result)
               /\ result[j] = IF i - Offset < 0 THEN NaN ELSE At(line, i - Offset)
      ELSE j <= Len(result) /\ result[j] = NaN

C3_Witness ==
  /\ pc = "done" /\ ~fill_by_prev
  /\ Master = <<10, 20, 30>> /\ line_clk = <<10, 30>>
  /\ line = <<Val(0, 0), Val(0, 1)>>
  /\ result = <<Val(0, 0), NaN, Val(0, 1)>>

\* C4: an unmatched position repeats the previous output when fill_by_prev
\* is set and a previous output exists, and is NaN otherwise; so every output
\* before the first hit is NaN, and all of them with an empty line and clock.
C4_Fill ==
  InCall =>
    /\ \A j \in 1 .. Len(trace) :
         ~trace[j].found =>
           /\ j <= Len(Out)
           /\ Out[j] = IF fill_by_prev /\ j >= 2 THEN Out[j - 1] ELSE NaN
    /\ \A j \in 1 .. Len(trace) :
         (\A k \in 1 .. j : ~trace[k].found) => j <= Len(Out) /\ Out[j] = NaN
    /\ (line = <<>> /\ line_clk = <<>>) =>
         \A j \in 1 .. Len(Out) : Out[j] = NaN

C4_Witness ==
  /\ pc = "done" /\ fill_by_prev
  /\ Master = <<10, 20, 30>> /\ line_clk = <<10, 30>>
  /\ line = <<Val(0, 0), Val(0, 1)>>
  /\ result = <<Val(0, 0), Val(0, 0), Val(0, 1)>>

\* C5: the cursor starts at 0 and never decreases over the iterations of a
\* call, the matched line_clk indices strictly increase in master order (so
\* no index is matched twice), and equal master timestamps consume successive
\* equal line_clk entries.
C5_Cursor ==
  InCall =>
    /\ Len(trace) >= 1 => trace[1].cursor = 0
    /\ \A k \in 1 .. Len(trace) - 1 : trace[k].cursor <= trace[k + 1].cursor
    /\ Len(trace) >= 1 => Last(trace).cursor <= next_start_idx
    /\ \A j, k \in 1 .. Len(trace) :
         (j < k /\ trace[j].found /\ trace[k].found) => trace[j].i < trace[k].i
    /\ (pc = "done" /\ Master = <<10, 10>> /\ line_clk = <<10, 10>>
          /\ line = <<Val(0, 0), Val(0, 1)>>) => result = <<Val(0, 0), Val(0, 1)>>

C5_Witness ==
  /\ pc = "done" /\ Supplied
  /\ Master = <<10, 10>> /\ line_clk = <<10, 10>>
  /\ line = <<Val(0, 0), Val(0, 1)>>
  /\ result = <<Val(0, 0), Val(0, 1)>>
  /\ trace[1].i = 0 /\ trace[2].i = 1

\* C6: with offset = len(line_clk) - len(line) > 0, a hit at index i < offset
\* emits NaN, a hit at i >= offset emits line[i - offset], and either hit
\* moves the cursor to i + 1.
C6_Offset ==
  (InCall /\ Offset > 0) =>
    \A j \in 1 .. Len(trace) :
      trace[j].found =>
        /\ j <= Len(Out)
        /\ trace[j].i < Offset => Out[j] = NaN
        /\ trace[j].i >= Offset => Out[j] = At(line, trace[j].i - Offset)
        /\ IF j < Len(trace) THEN trace[j + 1].cursor = trace[j].i + 1
                             ELSE next_start_idx = trace[j].i + 1

C6_Witness ==
  /\ pc = "done" /\ Supplied
  /\ line_clk = <<10, 20, 30>> /\ line = <<Val(0, 0), Val(0, 1)>>
  /\ Master = <<10, 20, 30>>
  /\ result = <<NaN, Val(0, 0), Val(0, 1)>>

\* C7: whatever the lengths and the ordering of the inputs, no read leaves
\* its sequence (every line index read is in 0 .. len(line) - 1, every
\* line_clk index read in 0 .. len(line_clk) - 1), nothing is raised, and
\* the loop has consumed at most M timestamps, each by one bounded scan, so
\* the call returns.
C7_NoError ==
  /\ pc # "raised"
  /\ pc = "loop" => mpos <= M /\ Len(trace) = mpos
  /\ \A j \in 1 .. Len(trace) :
       /\ trace[j].start >= 0
       /\ trace[j].start + trace[j].n <= Len(line_clk)
       /\ (trace[j].found /\ trace[j].read >= 0) => trace[j].read < Len(line)

C7_Witness ==
  /\ pc = "done" /\ Supplied
  /\ ~Sorted(Master) /\ ~Sorted(line_clk)
  /\ Len(line) > Len(line_clk)
  /\ \E j \in 1 .. Len(trace) : trace[j].found /\ trace[j].read = Len(line) - 1
  /\ HasMiss

\* C10 as stated: with both clocks sorted, at most M + len(line_clk) entries
\* of line_clk are examined in one call.
C10_Linear ==
  (pc = "done" /\ Supplied /\ Sorted(Master) /\ Sorted(line_clk)) =>
    Examined <= M + Len(line_clk)

\* C10 amended: with both clocks sorted, every scan starts at the cursor, so
\* no entry below the cursor (at or before the last hit) is examined again,
\* and one scan reads at most the entries from the cursor on; a miss leaves
\* the cursor where it was, so in all at most M * len(line_clk) entries are
\* examined.
C10_Bounded ==
  (InCall /\ Sorted(Master) /\ Sorted(line_clk)) =>
    /\ \A j \in 1 .. Len(trace) :
         /\ trace[j].start >= trace[j].cursor
         /\ trace[j].n <= Len(line_clk) - trace[j].cursor
         /\ \A k \in 1 .. j - 1 : trace[k].found => trace[j].start > trace[k].i
    /\ Examined <= Len(trace) * Len(line_clk)

C10_Witness ==
  /\ pc = "done" /\ Supplied
  /\ Sorted(Master) /\ Sorted(line_clk)
  /\ M = 3 /\ Len(line_clk) = 3
  /\ Examined = M * Len(line_clk)
  /\ Examined > M + Len(line_clk)

\* the table convert_to_pandas is to build: the lines that are not the
\* datetime line, in line order, each aligned on its own, then the datetime column
RECURSIVE DataColumns(_)
DataColumns(k) ==
  IF k = 0 THEN <<>>
  ELSE IF obj.aliases[k] = "datetime" THEN DataColumns(k - 1)
  ELSE Append(DataColumns(k - 1),
              [name |-> <<name_prefix, obj.aliases[k]>>,
               values |-> ConvertToMasterClock(obj.data[k], obj.clk, master_clock, FALSE)])
DatetimeColumn ==
  [name |-> <<name_prefix, "datetime">>,
   values |-> [k \in 1 .. M |-> [date |-> Master[k]]]]
DataLines == {k \in 1 .. Len(obj.aliases) : obj.aliases[k] # "datetime"}

\* C8: the table holds one column per line that is not the datetime line,
\* named name_prefix + alias, in line order, then the name_prefix + 'datetime'
\* column of the master timestamps; every column has M entries and a data
\* column is the NaN-fill alignment of its own line on the object's clock.
C8_Table ==
  ppc = "done" =>
    /\ df = Append(DataColumns(Len(obj.aliases)), DatetimeColumn)
    /\ Len(df) = Cardinality(DataLines) + 1
    /\ \A c \in 1 .. Len(df) : Len(df[c].values) = M

C8_Witness ==
  /\ ppc = "done"
  /\ Len(df) = 3 /\ M = 2
  /\ obj.aliases[2] = "datetime"
  /\ name_prefix # ""
  /\ df[1].values # df[2].values
  /\ \E c \in 1 .. 2 : df[c].values[1] = NaN /\ df[c].values[2] # NaN

\* C9: a second build from the same arguments yields the same table (names,
\* order and contents), and no step of a build or of an alignment changes
\* the master clock, the object, or the line and clock of a running call.
C9_Idempotent ==
  [][/\ master_clock' = master_clock /\ obj' = obj /\ name_prefix' = name_prefix
     /\ pc \in {"call", "loop"} => line' = line /\ line_clk' = line_clk
     /\ (nbuild' = 2 /\ ppc' = "done") => df' = first_df']_vars

C9_Witness ==
  /\ nbuild = 2 /\ ppc = "done"
  /\ df = first_df
  /\ Len(df) = 3 /\ M = 2
  /\ \A c \in 1 .. 2 : \E k \in 1 .. M : df[c].values[k] # NaN
  /\ \E c \in 1 .. 2 : \E k \in 1 .. M : df[c].values[k] = NaN

====
